---- MODULE Spec2Model ----
(***************************************************************************)
(* Model of to-doc/to_doc.py: a directory tree is walked, filtered by an   *)
(* ignore spec, an extension blocklist and a line limit, and the surviving *)
(* files are concatenated into one tagged document (or listed, in a dry    *)
(* run).                                                                   *)
(*                                                                         *)
(* Strings are tuples of character codes, a path is a tuple of components, *)
(* a file's text is a record [lines, nl]: its lines and whether the text   *)
(* ends with a line separator.  A line is a record [ind, tag, path, tok]:  *)
(* its indentation, what kind of line it is, and its payload.              *)
(***************************************************************************)
EXTENDS Integers, Sequences, FiniteSets, TLC

\* ------------------------------------------------------------------ bounds
MaxFiles == 2
MaxRuns == 2

\* ------------------------------------------------------- program constants
\* default of the max_lines option
DefaultMaxLines == 2000

\* ----------------------------------------------------------------- strings
Range(s) == {s[i] : i \in 1..Len(s)}

\* str.lower() on one character (ASCII)
LowerChar(c) == IF c \in 65..90 THEN c + 32 ELSE c

\* str.lower()
Lower(s) == [i \in 1..Len(s) |-> LowerChar(s[i])]

\* str.startswith(".")
StartsWithDot(s) == Len(s) > 0 /\ s[1] = 46

\* Python's ordering of two strings: by code point, a proper prefix first
StrLess(a, b) ==
    \E i \in 1..(Len(a) + 1) :
        /\ \A j \in 1..(i - 1) : j <= Len(b) /\ a[j] = b[j]
        /\ \/ (i = Len(a) + 1 /\ Len(b) >= i)
           \/ (i <= Len(a) /\ i <= Len(b) /\ a[i] < b[i])

\* PurePath.__lt__: the tuples of components are compared, component by
\* component, each component as a string
PathLess(p, q) ==
    \E i \in 1..(Len(p) + 1) :
        /\ \A j \in 1..(i - 1) : j <= Len(q) /\ p[j] = q[j]
        /\ \/ (i = Len(p) + 1 /\ Len(q) >= i)
           \/ (i <= Len(p) /\ i <= Len(q) /\ StrLess(p[i], q[i]))

RECURSIVE PathStr(_)
\* str(path): the components joined by "/"
PathStr(p) ==
    IF Len(p) = 0 THEN <<>>
    ELSE IF Len(p) = 1 THEN p[1]
    ELSE p[1] \o <<47>> \o PathStr(Tail(p))

\* PurePath.name
Name(p) == p[Len(p)]

\* PurePath.suffix: the final component from its last dot on, unless that dot
\* is the component's first or last character
Suffix(p) ==
    LET name == Name(p)
        dots == {i \in 1..Len(name) : name[i] = 46}
    IN  IF dots = {} THEN <<>>
        ELSE LET i == CHOOSE d \in dots : \A e \in dots : e <= d
             IN  IF 1 < i /\ i < Len(name)
                 THEN SubSeq(name, i, Len(name))
                 ELSE <<>>

\* PurePath.with_suffix(".log") of a path that has no suffix
WithSuffixLog(p) ==
    [p EXCEPT ![Len(p)] = @ \o <<46, 108, 111, 103>>]

\* ------------------------------------------------------------------- text
TextLine(t) == [ind |-> 0, tag |-> "text", path |-> <<>>, tok |-> t]
TagLine(n, t) == [ind |-> n, tag |-> t, path |-> <<>>, tok |-> 0]
PathLine(n, p) == [ind |-> n, tag |-> "path", path |-> p, tok |-> 0]
BlankLine == [ind |-> 0, tag |-> "blank", path |-> <<>>, tok |-> 0]

EmptyText == [lines |-> <<>>, nl |-> FALSE]

\* a text file of k lines, the last one terminated
Text(k) == [lines |-> [i \in 1..k |-> TextLine(1)], nl |-> k > 0]

\* two notebooks with the same cell source: they differ in the execution
\* counter (tok 30, 31) and the stored outputs (tok 20, 21)
NotebookA ==
    [lines |-> <<TextLine(10), TextLine(30), TextLine(20)>>, nl |-> TRUE]
NotebookB ==
    [lines |-> <<TextLine(10), TextLine(31), TextLine(21), TextLine(21)>>,
     nl |-> TRUE]

\* textwrap.indent(text, prefix): every line that is not blank gets prefix
Indent(lines, n) ==
    [i \in 1..Len(lines) |->
        IF lines[i].tag = "blank" THEN lines[i]
        ELSE [lines[i] EXCEPT !.ind = @ + n]]

\* bool(content)
NonEmpty(content) == content.lines # <<>>

\* len(content.splitlines()) if content else 0
LineCount(content) == Len(content.lines)

\* --------------------------------------------------------- the file system
\* a.txt, b.py, .git/config, a.LOG, a.logger, a/x, n1.ipynb, n2.ipynb
a_txt == << <<97, 46, 116, 120, 116>> >>
b_py == << <<98, 46, 112, 121>> >>
git_config == << <<46, 103, 105, 116>>, <<99, 111, 110, 102, 105, 103>> >>
a_LOG == << <<97, 46, 76, 79, 71>> >>
a_logger == << <<97, 46, 108, 111, 103, 103, 101, 114>> >>
a_x == << <<97>>, <<120>> >>
n1_ipynb == << <<110, 49, 46, 105, 112, 121, 110, 98>> >>
n2_ipynb == << <<110, 50, 46, 105, 112, 121, 110, 98>> >>

Universe ==
    {a_txt, b_py, git_config, a_LOG, a_logger, a_x, n1_ipynb, n2_ipynb}

ReadableFile(c) == [readable |-> TRUE, content |-> c]
\* a file whose read fails (permission or decode error)
UnreadableFile == [readable |-> FALSE, content |-> Text(3)]

\* what each file of the tree may hold
FileOpts(p) ==
    IF p = a_txt THEN {ReadableFile(Text(0)), ReadableFile(Text(3)),
                       UnreadableFile}
    ELSE IF p = b_py THEN {ReadableFile(Text(10)), ReadableFile(Text(11))}
    ELSE IF p = a_logger THEN {ReadableFile(Text(2))}
    ELSE IF p = n1_ipynb THEN {ReadableFile(NotebookA)}
    ELSE IF p = n2_ipynb THEN {ReadableFile(NotebookB)}
    ELSE {ReadableFile(Text(1))}

AllFileOpts == UNION {FileOpts(p) : p \in Universe}

\* the tree of spec.md's dry-run scenario
ScenarioTree ==
    (a_txt :> ReadableFile(Text(3))) @@ (b_py :> ReadableFile(Text(5)))
        @@ (git_config :> ReadableFile(Text(1)))

Trees ==
    UNION {{t \in [S -> AllFileOpts] : \A p \in S : t[p] \in FileOpts(p)} :
              S \in {S \in SUBSET Universe : Cardinality(S) <= MaxFiles}}
        \cup {ScenarioTree}

\* Path.rglob("*"): every file and every directory under the root
Entries(tree) ==
    DOMAIN tree \cup
        UNION {{SubSeq(p, 1, k) : k \in 1..(Len(p) - 1)} : p \in DOMAIN tree}

\* Path.is_file()
is_file(tree, path) == path \in DOMAIN tree

\* ------------------------------------------------------------ configuration
\* the .ignore file next to the script: a comment, ".git/", a blank line and
\* "*.log"
IgnoreFileLines ==
    << [kind |-> "comment", arg |-> <<>>],
       [kind |-> "dir", arg |-> <<46, 103, 105, 116>>],
       [kind |-> "blank", arg |-> <<>>],
       [kind |-> "ext", arg |-> <<46, 108, 111, 103>>] >>

IgnoreFiles ==
    { [state |-> "missing", lines |-> <<>>],
      [state |-> "error", lines |-> <<>>],
      [state |-> "ok", lines |-> IgnoreFileLines] }

\* the name of the root directory, "r"
RootName == <<114>>

\* --output: absent, "doc.txt" (in the tree), "../o" (outside, no suffix)
OutputOpts ==
    { <<>>,
      << <<100, 111, 99, 46, 116, 120, 116>> >>,
      << <<46, 46>>, <<111>> >> }

\* --exclude: absent, or "LOG" and ".Py"
ExcludeOpts ==
    { <<>>,
      << <<76, 79, 71>>, <<46, 80, 121>> >> }

MaxLinesOpts == {0, 10, DefaultMaxLines}

Configs ==
    { c \in [isDir : BOOLEAN, output : OutputOpts, dry : BOOLEAN,
             max_lines : MaxLinesOpts, no_limit : BOOLEAN,
             exclude : ExcludeOpts, ignore : IgnoreFiles] :
        /\ (c.dry => c.output = <<>>)
        /\ (c.no_limit => c.max_lines = DefaultMaxLines)
        /\ (~c.isDir => /\ c.output = <<>> /\ ~c.dry /\ ~c.no_limit
                        /\ c.max_lines = DefaultMaxLines /\ c.exclude = <<>>
                        /\ c.ignore.state = "missing") }

VARIABLES
    fs,                       \* the tree under the root: path -> file
    cfg,                      \* the command line and the .ignore file
    pc,                       \* where main is
    runs,                     \* how many runs have started
    exit_code,
    output,                   \* main's output, as a path
    effective_max_lines,      \* <<>> is None, <<n>> is n
    exclude_extensions,       \* {} is None
    ignore_spec,              \* collect_files' ignore_spec
    todo,                     \* entries rglob has still to yield
    files,                    \* collect_files' files, then main's
    filtered_count,
    extension_filtered_count,
    warnings,                 \* messages on the diagnostic stream
    total_lines,
    wfiles,                   \* write_output_file's records still to write
    out,                      \* what has been written to the output file
    blocks,                   \* the file blocks written, in order
    doc,                      \* the output document of this run
    prevDoc,                  \* the output document of the previous run
    report                    \* what the dry run printed

vars ==
    <<fs, cfg, pc, runs, exit_code, output, effective_max_lines,
      exclude_extensions, ignore_spec, todo, files, filtered_count,
      extension_filtered_count, warnings, total_lines, wfiles, out, blocks,
      doc, prevDoc, report>>

NoReport ==
    [listing |-> <<>>, total_lines |-> 0, total_files |-> 0,
     limit |-> <<>>, printed |-> FALSE]

Init ==
    /\ fs \in Trees
    /\ cfg \in Configs
    /\ pc = "main"
    /\ runs = 1
    /\ exit_code = 0
    /\ output = <<>>
    /\ effective_max_lines = <<>>
    /\ exclude_extensions = {}
    /\ ignore_spec = <<>>
    /\ todo = {}
    /\ files = <<>>
    /\ filtered_count = 0
    /\ extension_filtered_count = 0
    /\ warnings = <<>>
    /\ total_lines = 0
    /\ wfiles = <<>>
    /\ out = EmptyText
    /\ blocks = <<>>
    /\ doc = EmptyText
    /\ prevDoc = EmptyText
    /\ report = NoReport

\* ------------------------------------------------------------- the program
\* get_default_output_path
get_default_output_path ==
    << RootName \o <<45, 108, 108, 109, 115, 46, 108, 111, 103>> >>

\* whether a path lies under the root directory (it does not start with "..")
InTree(path) == path[1] # <<46, 46>>

\* read_file_content: the text of the file, "" when the read fails
read_file_content(tree, path) ==
    IF tree[path].readable THEN tree[path].content ELSE EmptyText

\* the message read_file_content echoes when the read fails
ReadWarnings(tree, path) ==
    IF tree[path].readable THEN <<>>
    ELSE << [what |-> "Failed to read", path |-> path] >>

\* get_ignore_spec: the patterns of the .ignore file when it exists and can
\* be read, no pattern at all otherwise
get_ignore_spec(ignore) ==
    IF ignore.state = "ok"
    THEN SelectSeq(ignore.lines,
                   LAMBDA l : l.kind # "blank" /\ l.kind # "comment")
    ELSE <<>>

\* the message get_ignore_spec echoes when reading the .ignore file fails
IgnoreWarnings(ignore) ==
    IF ignore.state = "error"
    THEN << [what |-> "Warning: Failed to read", path |-> <<>>] >>
    ELSE <<>>

\* str.endswith
EndsWith(s, t) ==
    Len(s) >= Len(t) /\ SubSeq(s, Len(s) - Len(t) + 1, Len(s)) = t

\* one gitwildmatch pattern against a path: "name/" matches what lies under
\* a directory of that name, "*.ext" matches an entry whose name ends with
\* .ext and what lies under it
PatternMatches(pattern, path) ==
    IF pattern.kind = "dir"
    THEN \E i \in 1..(Len(path) - 1) : path[i] = pattern.arg
    ELSE \E i \in 1..Len(path) : EndsWith(path[i], pattern.arg)

\* PathSpec.match_file
match_file(spec, path) ==
    \E i \in 1..Len(spec) : PatternMatches(spec[i], path)

\* main's normalisation of the --exclude values: lowercase, leading dot
NormalizeExclude(exclude) ==
    { IF StartsWithDot(exclude[i]) THEN Lower(exclude[i])
      ELSE <<46>> \o Lower(exclude[i]) : i \in 1..Len(exclude) }

\* the extension test without the lowercasing of the file's suffix
ExtensionExcluded_CaseSensitive(exts, path) ==
    exts # {} /\ Suffix(path) \in exts

\* collect_files' test of a path against the excluded extensions
ExtensionExcluded(exts, path) ==
    exts # {} /\ Lower(Suffix(path)) \in exts

\* the limit test with the boundary on the wrong side
ExceedsLimit_Inclusive(max_lines, line_count) ==
    max_lines # <<>> /\ line_count >= max_lines[1]

\* collect_files' test of a line count against the limit
ExceedsLimit(max_lines, line_count) ==
    max_lines # <<>> /\ line_count > max_lines[1]

\* collect_files without its test for an empty file
KeepRecord_Always(line_count) == line_count >= 0

\* collect_files' test for a file that gets a record
KeepRecord(line_count) == line_count > 0

\* FileInfo
FileInfo(line_count, path, content) ==
    [line_count |-> line_count, path |-> path, content |-> content]

\* FileInfo.__lt__ (dataclass(order=True); content is not compared)
FileInfoLess(a, b) ==
    \/ a.line_count < b.line_count
    \/ a.line_count = b.line_count /\ PathLess(a.path, b.path)

\* sorted(files, reverse=True)
SortedReverse(fl) ==
    [i \in 1..Len(fl) |->
        CHOOSE x \in Range(fl) :
            Cardinality({y \in Range(fl) : FileInfoLess(x, y)}) = i - 1]

\* write_output_file without its sort
SortedByPath_Unsorted(fl) == fl

\* sorted(files, key=lambda file_info: file_info.path)
SortedByPath(fl) ==
    [i \in 1..Len(fl) |->
        CHOOSE x \in Range(fl) :
            Cardinality({y \in Range(fl) : PathLess(y.path, x.path)}) = i - 1]

RECURSIVE SumLineCounts(_)
\* sum(file_info.line_count for file_info in files)
SumLineCounts(fl) ==
    IF fl = <<>> THEN 0 ELSE Head(fl).line_count + SumLineCounts(Tail(fl))

\* bool(effective_max_lines)
Truthy(max_lines) == max_lines # <<>> /\ max_lines[1] # 0

\* the "Max lines per file" line of the dry run: <<>> is "No limit"
LimitLine(max_lines) == IF Truthy(max_lines) THEN max_lines ELSE <<>>

\* the file block write_output_file writes for one record
FileBlock(relative_path, content) ==
    Indent(<<TagLine(0, "file"), PathLine(2, relative_path),
             TagLine(2, "content")>>
               \o Indent(content.lines, 4)
               \o (IF content.nl THEN <<BlankLine>> ELSE <<>>)
               \o <<TagLine(2, "/content"), TagLine(0, "/file")>>,
           2)

\* what a read of the output file returns while it is being written: the
\* part of the written text that has left the writer's buffer.  Nothing
\* leaves the buffer before it is full, and the root tag, a file tag, a path
\* line and a content tag do not fill it: the part read is empty or reaches
\* into the content of the first block.  Of the places where the text may be
\* cut, the model takes the earliest (after the first content line) and the
\* latest (all that was written).
Flushed(written) ==
    {EmptyText} \cup
        { [lines |-> SubSeq(written.lines, 1, k), nl |-> TRUE] :
              k \in {k \in {5, Len(written.lines)} :
                        5 <= k /\ k <= Len(written.lines)} }

\* ----------------------------------------------------------------- actions
\* main, when the directory argument is not a directory: exit with code 1
main_exit ==
    /\ pc = "main"
    /\ ~cfg.isDir
    /\ pc' = "exit"
    /\ exit_code' = 1
    /\ UNCHANGED <<fs, cfg, runs, output, effective_max_lines,
                   exclude_extensions, ignore_spec, todo, files,
                   filtered_count, extension_filtered_count, warnings,
                   total_lines, wfiles, out, blocks, doc, prevDoc, report>>

\* main up to its call of collect_files, and collect_files up to its loop
main_begin ==
    /\ pc = "main"
    /\ cfg.isDir
    /\ output' = IF cfg.output = <<>> THEN get_default_output_path
                 ELSE IF Suffix(cfg.output) = <<>>
                      THEN WithSuffixLog(cfg.output)
                      ELSE cfg.output
    /\ effective_max_lines' = IF cfg.no_limit THEN <<>>
                              ELSE <<cfg.max_lines>>
    /\ exclude_extensions' = IF cfg.exclude # <<>>
                             THEN NormalizeExclude(cfg.exclude)
                             ELSE {}
    /\ files' = <<>>
    /\ ignore_spec' = get_ignore_spec(cfg.ignore)
    /\ warnings' = warnings \o IgnoreWarnings(cfg.ignore)
    /\ filtered_count' = 0
    /\ extension_filtered_count' = 0
    /\ todo' = Entries(fs)
    /\ pc' = "collect"
    /\ UNCHANGED <<fs, cfg, runs, exit_code, total_lines, wfiles, out,
                   blocks, doc, prevDoc, report>>

\* one iteration of collect_files' loop, on an entry rglob yields
collect_step ==
    /\ pc = "collect"
    /\ \E path \in todo :
        /\ todo' = todo \ {path}
        /\ IF match_file(ignore_spec, path) \/ ~is_file(fs, path)
           THEN UNCHANGED <<files, filtered_count,
                            extension_filtered_count, warnings>>
           ELSE IF ExtensionExcluded(exclude_extensions, path)
           THEN /\ extension_filtered_count' = extension_filtered_count + 1
                /\ UNCHANGED <<files, filtered_count, warnings>>
           ELSE LET content == read_file_content(fs, path)
                    line_count == LineCount(content)
                IN  /\ warnings' = warnings \o ReadWarnings(fs, path)
                    /\ UNCHANGED extension_filtered_count
                    /\ IF ExceedsLimit(effective_max_lines, line_count)
                       THEN /\ filtered_count' = filtered_count + 1
                            /\ UNCHANGED files
                       ELSE /\ UNCHANGED filtered_count
                            /\ files' =
                                 IF KeepRecord(line_count)
                                 THEN Append(files,
                                        FileInfo(line_count, path, content))
                                 ELSE files
    /\ UNCHANGED <<fs, cfg, pc, runs, exit_code, output,
                   effective_max_lines, exclude_extensions, ignore_spec,
                   total_lines, wfiles, out, blocks, doc, prevDoc, report>>

\* collect_files' return, and main's total
collect_return ==
    /\ pc = "collect"
    /\ todo = {}
    /\ files' = SortedReverse(files)
    /\ total_lines' = SumLineCounts(files')
    /\ pc' = IF cfg.dry THEN "dry" ELSE "write"
    /\ UNCHANGED <<fs, cfg, runs, exit_code, output, effective_max_lines,
                   exclude_extensions, ignore_spec, todo, filtered_count,
                   extension_filtered_count, warnings, wfiles, out, blocks,
                   doc, prevDoc, report>>

\* main's dry-run branch
dry_run ==
    /\ pc = "dry"
    /\ report' =
         [listing |-> [i \in 1..Len(files) |->
                          [path |-> files[i].path,
                           line_count |-> files[i].line_count]],
          total_lines |-> total_lines,
          total_files |-> Len(files),
          limit |-> LimitLine(effective_max_lines),
          printed |-> TRUE]
    /\ pc' = "done"
    /\ UNCHANGED <<fs, cfg, runs, exit_code, output, effective_max_lines,
                   exclude_extensions, ignore_spec, todo, files,
                   filtered_count, extension_filtered_count, warnings,
                   total_lines, wfiles, out, blocks, doc, prevDoc>>

\* write_output_file up to its loop: the records are sorted, the output file
\* is opened for writing (and so emptied) and the root tag is written
write_open ==
    /\ pc = "write"
    /\ wfiles' = SortedByPath(files)
    /\ fs' = IF InTree(output)
             THEN (output :> ReadableFile(EmptyText)) @@ fs
             ELSE fs
    /\ out' = [lines |-> <<TagLine(0, "files")>>, nl |-> TRUE]
    /\ blocks' = <<>>
    /\ pc' = "writing"
    /\ UNCHANGED <<cfg, runs, exit_code, output, effective_max_lines,
                   exclude_extensions, ignore_spec, todo, files,
                   filtered_count, extension_filtered_count, warnings,
                   total_lines, doc, prevDoc, report>>

\* one iteration of write_output_file's loop
write_step ==
    /\ pc = "writing"
    /\ wfiles # <<>>
    /\ LET file_info == Head(wfiles)
           relative_path == file_info.path
       IN  /\ \E content \in
                    IF file_info.path = output
                    THEN Flushed(out)
                    ELSE {read_file_content(fs, file_info.path)} :
                 IF NonEmpty(content)
                 THEN /\ out' = [lines |-> out.lines \o
                                     FileBlock(relative_path, content),
                                 nl |-> TRUE]
                      /\ blocks' = Append(blocks,
                                     [path |-> relative_path,
                                      content |-> content])
                 ELSE UNCHANGED <<out, blocks>>
           /\ warnings' = warnings \o ReadWarnings(fs, file_info.path)
    /\ wfiles' = Tail(wfiles)
    /\ UNCHANGED <<fs, cfg, pc, runs, exit_code, output,
                   effective_max_lines, exclude_extensions, ignore_spec,
                   todo, files, filtered_count, extension_filtered_count,
                   total_lines, doc, prevDoc, report>>

\* write_output_file's end: the closing tag is written and the file closed
write_close ==
    /\ pc = "writing"
    /\ wfiles = <<>>
    /\ out' = [lines |-> Append(out.lines, TagLine(0, "/files")),
               nl |-> FALSE]
    /\ doc' = out'
    /\ fs' = IF InTree(output)
             THEN (output :> ReadableFile(out')) @@ fs
             ELSE fs
    /\ pc' = "done"
    /\ UNCHANGED <<cfg, runs, exit_code, output, effective_max_lines,
                   exclude_extensions, ignore_spec, todo, files,
                   filtered_count, extension_filtered_count, warnings,
                   total_lines, wfiles, blocks, prevDoc, report>>

\* the tool is run again, with the same command line, on the tree as the
\* previous run left it
rerun ==
    /\ pc = "done"
    /\ runs < MaxRuns
    /\ runs' = runs + 1
    /\ prevDoc' = doc
    /\ pc' = "main"
    /\ output' = <<>>
    /\ effective_max_lines' = <<>>
    /\ exclude_extensions' = {}
    /\ ignore_spec' = <<>>
    /\ todo' = {}
    /\ files' = <<>>
    /\ filtered_count' = 0
    /\ extension_filtered_count' = 0
    /\ warnings' = <<>>
    /\ total_lines' = 0
    /\ wfiles' = <<>>
    /\ out' = EmptyText
    /\ blocks' = <<>>
    /\ doc' = EmptyText
    /\ report' = NoReport
    /\ UNCHANGED <<fs, cfg, exit_code>>

Next ==
    \/ main_exit
    \/ main_begin
    \/ collect_step
    \/ collect_return
    \/ dry_run
    \/ write_open
    \/ write_step
    \/ write_close
    \/ rerun

Spec == Init /\ [][Next]_vars

TypeOK ==
    /\ pc \in {"main", "exit", "collect", "dry", "write", "writing", "done"}
    /\ runs \in 1..MaxRuns
    /\ filtered_count \in Nat
    /\ extension_filtered_count \in Nat

\* ------------------------------------------------------------------ claims
RecordPaths == {files[i].path : i \in 1..Len(files)}
BlockPaths == {blocks[i].path : i \in 1..Len(blocks)}

\* collect_files has returned and the tree is still as it walked it
Collected == pc \in {"dry", "write"}

\* the files collect_files reads: regular, not ignored, extension not excluded
Reached(p) ==
    /\ is_file(fs, p)
    /\ ~match_file(ignore_spec, p)
    /\ ~ExtensionExcluded(exclude_extensions, p)

\* C1 (as stated): the file blocks of the output are in strictly ascending
\* byte order of their relative path strings.
C1_ByteOrder ==
    \A i, j \in 1..Len(blocks) :
        i < j => StrLess(PathStr(blocks[i].path), PathStr(blocks[j].path))

\* C1 (amended): the file blocks of the output are in strictly ascending
\* order of their relative paths as pathlib orders paths (component by
\* component, each component as a string), whatever order collect_files
\* returned the records in.
C1_PathOrder ==
    \A i, j \in 1..Len(blocks) :
        i < j => PathLess(blocks[i].path, blocks[j].path)

\* a/x and a.txt were collected as a.txt, a/x and written as a/x, a.txt
C1_Witness ==
    /\ pc = "done"
    /\ Len(files) = 2
    /\ files[1].path = a_txt
    /\ files[2].path = a_x
    /\ Len(blocks) = 2
    /\ blocks[1].path = a_x
    /\ blocks[2].path = a_txt

\* C2: a second run with the same command line on the tree the first run
\* left writes the same output document as the first run.
C2_Idempotent ==
    (pc = "done" /\ runs >= 2 /\ ~cfg.dry) => doc = prevDoc

\* what the built-in pattern list of the claim excludes, among the paths of
\* the model: what lies under .git, and files with the output suffix .log
BuiltinNoise(p) ==
    \/ \E i \in 1..(Len(p) - 1) : p[i] = <<46, 103, 105, 116>>
    \/ Suffix(p) = <<46, 108, 111, 103>>

\* C3: when the .ignore file is missing or cannot be read, no path under a
\* version-control directory and no file with the tool's output suffix is
\* among the records collect_files returns.
C3_BuiltinIgnore ==
    (cfg.ignore.state # "ok") => \A p \in RecordPaths : ~BuiltinNoise(p)

\* a notebook's text with the stored outputs (tok 20..29) removed and the
\* execution counters (tok 30..39) reset
Cleaned(content) ==
    LET kept == SelectSeq(content.lines, LAMBDA l : ~(l.tok \in 20..29))
    IN  [i \in 1..Len(kept) |->
            IF kept[i].tok \in 30..39 THEN [kept[i] EXCEPT !.tok = 30]
            ELSE kept[i]]

IsNotebook(p) == Suffix(p) = <<46, 105, 112, 121, 110, 98>>

\* C4: two notebook files that are identical except for stored outputs and
\* execution counters have records with identical content and line counts.
C4_NotebookClean ==
    \A i, j \in 1..Len(files) :
        (/\ IsNotebook(files[i].path)
         /\ IsNotebook(files[j].path)
         /\ files[i].path \in DOMAIN fs
         /\ files[j].path \in DOMAIN fs
         /\ Cleaned(fs[files[i].path].content)
              = Cleaned(fs[files[j].path].content))
        => /\ files[i].content = files[j].content
           /\ files[i].line_count = files[j].line_count

\* C5: no record holds empty content, no file block written has empty
\* content, and in the document no content tag of a file block is directly
\* followed by its closing tag.
C5_NoEmptyBlock ==
    /\ \A i \in 1..Len(files) :
          files[i].line_count > 0 /\ NonEmpty(files[i].content)
    /\ \A p \in DOMAIN fs :
          (Collected /\ ~NonEmpty(read_file_content(fs, p)))
              => p \notin RecordPaths
    /\ \A i \in 1..Len(blocks) : NonEmpty(blocks[i].content)
    /\ \A k \in 1..(Len(out.lines) - 1) :
          (out.lines[k].tag = "content" /\ out.lines[k].ind = 4)
              => out.lines[k + 1].tag # "/content"

\* an empty a.txt got no record, and the record of the output file, read as
\* empty when it was written, got no block, while another file got one
C5_Witness ==
    /\ pc = "done"
    /\ a_txt \in DOMAIN fs
    /\ fs[a_txt].readable
    /\ ~NonEmpty(fs[a_txt].content)
    /\ a_txt \notin RecordPaths
    /\ output \in RecordPaths
    /\ output \notin BlockPaths
    /\ Len(blocks) = 1

\* the files whose read fails, among those collect_files reads
Unreadable == {p \in DOMAIN fs : Reached(p) /\ ~fs[p].readable}

\* C6: when exactly one file cannot be read, a run that writes the document
\* ends with exactly one warning naming that file, without a record or a
\* block for it, and with a block for every record and for every other file
\* that is not empty and not filtered.
C6_UnreadableSkipped ==
    (pc = "done" /\ ~cfg.dry /\ Cardinality(Unreadable) = 1) =>
        \A u \in Unreadable :
            /\ Cardinality({i \in 1..Len(warnings) :
                               warnings[i].path = u}) = 1
            /\ u \notin RecordPaths
            /\ u \notin BlockPaths
            /\ \A p \in RecordPaths : p \in BlockPaths
            /\ \A p \in DOMAIN fs \ {output} :
                  (/\ Reached(p)
                   /\ NonEmpty(read_file_content(fs, p))
                   /\ ~ExceedsLimit(effective_max_lines,
                                    LineCount(read_file_content(fs, p))))
                  => p \in BlockPaths

\* C7: with a line limit N in effect, of the files collect_files reads those
\* with more than N lines have no record and are counted in filtered_count,
\* once each, and those with 1..N lines have a record.
C7_MaxLines ==
    (Collected /\ effective_max_lines # <<>>) =>
        LET N == effective_max_lines[1]
            Lines(p) == LineCount(read_file_content(fs, p))
            read == {p \in DOMAIN fs : Reached(p)}
        IN  /\ \A p \in read : Lines(p) > N => p \notin RecordPaths
            /\ \A p \in read :
                  (0 < Lines(p) /\ Lines(p) <= N) =>
                      \E i \in 1..Len(files) :
                          /\ files[i].path = p
                          /\ files[i].line_count = Lines(p)
            /\ filtered_count = Cardinality({p \in read : Lines(p) > N})

\* with N = 10, b.py of exactly 10 lines has a record
C7_Witness ==
    /\ Collected
    /\ effective_max_lines = <<10>>
    /\ b_py \in RecordPaths
    /\ LineCount(fs[b_py].content) = 10
    /\ filtered_count = 0

\* the final extension of p equals a member of the set, case ignored
ExtensionMatches(exts, p) ==
    \E e \in exts : Lower(Suffix(p)) = Lower(e)

\* C8: of the regular files that are not ignored, exactly those whose final
\* extension equals, case ignored, a member of the excluded set are counted
\* in extension_filtered_count and left without a record; the others get a
\* record unless they are empty or over the line limit.
C8_ExtensionFilter ==
    Collected =>
        LET regular == {p \in DOMAIN fs : ~match_file(ignore_spec, p)}
            excluded == {p \in regular :
                            ExtensionMatches(exclude_extensions, p)}
        IN  /\ extension_filtered_count = Cardinality(excluded)
            /\ \A p \in excluded : p \notin RecordPaths
            /\ \A p \in regular \ excluded :
                  (/\ NonEmpty(read_file_content(fs, p))
                   /\ ~ExceedsLimit(effective_max_lines,
                                    LineCount(read_file_content(fs, p))))
                  => p \in RecordPaths

\* with ".log" in the excluded set, a.LOG is excluded and a.logger is not
C8_Witness ==
    /\ Collected
    /\ <<46, 108, 111, 103>> \in exclude_extensions
    /\ a_LOG \in DOMAIN fs
    /\ a_logger \in DOMAIN fs
    /\ ignore_spec = <<>>
    /\ extension_filtered_count = 1
    /\ RecordPaths = {a_logger}

\* C9: the dry run lists the records in non-increasing line-count order and
\* reports their number and the sum of their line counts; for the root
\* holding a.txt (3 lines), b.py (5 lines) and .git/config, with the default
\* limit and no excluded extension, it reports 2 files, 8 lines and lists
\* b.py before a.txt.
C9_DryRun ==
    report.printed =>
        /\ \A i, j \in 1..Len(report.listing) :
              i < j => report.listing[i].line_count
                           >= report.listing[j].line_count
        /\ report.total_files = Len(files)
        /\ report.total_lines = SumLineCounts(files)
        /\ (/\ fs = ScenarioTree
            /\ cfg.exclude = <<>>
            /\ cfg.max_lines = DefaultMaxLines)
           => /\ report.total_files = 2
              /\ report.total_lines = 8
              /\ report.listing =
                   << [path |-> b_py, line_count |-> 5],
                      [path |-> a_txt, line_count |-> 3] >>

\* C10: the dry run prints "No limit" exactly when collect_files filters no
\* file for its line count, whatever the line count.
C10_LimitReport ==
    report.printed =>
        ((report.limit = <<>>) <=>
            (effective_max_lines = <<>>
                \/ ~ExceedsLimit(effective_max_lines,
                                 effective_max_lines[1] + 1)))

====
